---- MODULE Spec2Model ----
(***************************************************************************)
(* A model of go-selfupdate: the client update cycle (scheduler, fetch /   *)
(* verify pipeline, binary replacement) of selfupdate/selfupdate.go and    *)
(* selfupdate/utils.go, and the channel promoter of                        *)
(* aws/lambda/promote_update.go.                                           *)
(***************************************************************************)
EXTENDS Integers, Sequences, FiniteSets, TLC

VARIABLES
    u,        \* the Updater's configuration fields (fixed after construction)
    Info,     \* u.Info, the last accepted manifest
    pc,       \* position of the update cycle
    now,      \* the wall clock, in ticks
    cktime,   \* the persisted time file
    fs,       \* the executable's directory: canonical path, .name.new, .name.old
    decoded,  \* fetchInfo's local info: the manifest as decoded in this cycle
    payload,  \* fetchAndVerifyFullBin's local bin: the decompressed bytes
    bin,      \* Update's local bin: the bytes handed to applyUpdate
    log,      \* the operations issued by the current (or last) cycle, in order
    result,   \* what the last finished cycle returned
    due,      \* what shouldUpdate answered in the current (or last) cycle
    started,  \* the clock value at which the current (or last) cycle began
    prev,     \* the cycle before the current (or last) one: whether it was due and
              \* failed, wrote the time file, began at this cycle's clock value,
              \* ended with an error of applyUpdate that left the old binary
    fs0,      \* the files at the canonical path and at .name.old when the current (or
              \* last) cycle began
    faults,   \* whether a file operation of applyUpdate failed in the current (or
              \* last) cycle
    applied,  \* the manifest an earlier cycle of this Updater applied, if any
    Local,    \* time.Local: the time zone of the machine
    GOOS,     \* runtime.GOOS: the operating system the binary was built for
    fetched,  \* the URLs the current (or last) cycle handed to Requester.Fetch, in order
    table,     \* the update_tracking table: version -> record
    manifests, \* the bucket's manifests: channel -> version -> manifest
    binaries,  \* the bucket's compressed binaries: channel -> version -> bytes
    sc,        \* the promoter invocations: position and locals of each
    bucketSet, \* whether BUCKET_NAME is set
    concurrency, \* how many promoter invocations the trigger lets run at once
    recorded,  \* per version, the transitions UpdateItem has recorded, in order
    scanNo,    \* the number of invocations of the handler so far
    scans      \* per invocation, the journal entry it left when it returned

uvars == <<u, Info, pc, cktime, fs, decoded, payload, bin, log, result, due, started, prev,
           fs0, faults, applied, Local, GOOS, fetched>>
pvars == <<table, manifests, binaries, sc, bucketSet, concurrency, recorded, scanNo, scans>>
vars == <<u, Info, pc, now, cktime, fs, decoded, payload, bin, log, result, due, started, prev,
          fs0, faults, applied, Local, GOOS, fetched,
          table, manifests, binaries, sc, bucketSet, concurrency, recorded, scanNo, scans>>

---------------------------------------------------------------------------
(* Time.  A tick is a fraction of a second, so that the truncation to whole *)
(* seconds of the RFC3339 format is visible.  The clock is sampled on the   *)
(* hour and one tick after it.                                              *)

TicksPerSecond == 2
Second == TicksPerSecond
Hour == 3600 * Second
Day == 24 * Hour
MaxHours == 1
MaxNow == MaxHours * Hour

\* time.Time{}: the zero time, before every clock value
ZeroTime == 0

\* t.Format(time.RFC3339): the text names a whole second, the fraction is lost
FormatRFC3339(t) == t \div Second

\* time.Parse(time.RFC3339, s) of a text Format produced
ParseRFC3339(s) == s * Second

---------------------------------------------------------------------------
(* Binaries and digests *)

sha256Size == 32

OldBin == "old"
Payloads == {"binA", "binB"}
Partial == "partial"     \* a created, not completely written file
Absent == "none"

ByteOf(b) == CASE b = "old" -> 1 [] b = "binA" -> 2 [] b = "binB" -> 3 [] OTHER -> 0

\* sha256.New(); h.Write(bin); h.Sum(nil): a 32-byte digest, distinct for
\* distinct binaries of the model
Sha256Sum(b) == [i \in 1..sha256Size |-> (ByteOf(b) * 16 + i) % 256]

verifyHashFlipped(b, expectedHash) == Len(expectedHash) = sha256Size

\* verifyHash: bytes.Equal(h.Sum(nil), expectedHash)
verifyHash(b, expectedHash) == Sha256Sum(b) = expectedHash

---------------------------------------------------------------------------
(* The time file (utils.go) *)

MissingFile == [kind |-> "missing", text |-> 0]
CorruptFile == [kind |-> "corrupt", text |-> 0]
UnreadableFile == [kind |-> "unreadable", text |-> 0]
ValidFile(t) == [kind |-> "valid", text |-> FormatRFC3339(t)]

readTimeSwapped(file, t) ==
    CASE file.kind = "missing" -> t + 1000 * Hour
      [] file.kind = "unreadable" -> ZeroTime
      [] file.kind = "corrupt" -> ZeroTime
      [] OTHER -> ParseRFC3339(file.text)

\* readTime: zero time when the file does not exist, 1000 hours ahead when it
\* cannot be read or parsed
readTime(file, t) ==
    CASE file.kind = "missing" -> ZeroTime
      [] file.kind = "unreadable" -> t + 1000 * Hour
      [] file.kind = "corrupt" -> t + 1000 * Hour
      [] OTHER -> ParseRFC3339(file.text)

\* writeTime: os.WriteFile of the formatted time; the result is a bool the
\* callers drop.  A failed write leaves the file as it was, or truncated.
writeTime(file, t, outcome) ==
    CASE outcome = "ok" -> ValidFile(t)
      [] outcome = "truncated" -> CorruptFile
      [] OTHER -> file

WriteOutcomes == {"ok", "failed", "truncated"}

---------------------------------------------------------------------------
(* The schedule (selfupdate.go) *)

\* A time zone: wall clock = instant + offset, the offset being 0 before the
\* instant `at` and `shift` from it on.  UTC never shifts; the other two have
\* one daylight-saving transition, at 02:00 of the second day.
UTC == [at |-> 0, shift |-> 0]
DstAt == Day + 2 * Hour
Zones == {UTC, [at |-> DstAt, shift |-> Hour], [at |-> DstAt, shift |-> 0 - Hour]}

\* Location.lookup: the offset in force at an instant
lookup(z, x) == IF x >= z.at THEN z.shift ELSE 0

\* what now.Year(), now.Month(), now.Day(), now.Hour() are read from
wallClock(z, t) == t + lookup(z, t)

\* time.Date(..., loc): the instant of a wall-clock reading.  The offset is
\* looked up as if the reading were an instant, and looked up again when the
\* instant that gives lies outside the period the offset belongs to.
Date(z, wall) ==
    LET offset == lookup(z, wall)
        utc == wall - offset
    IN  IF offset = 0 THEN wall
        ELSE IF utc < z.at THEN wall - lookup(z, utc)
        ELSE utc

\* Updater.calculateScheduledTime
calculateScheduledTime(cfg, t) ==
    LET w == wallClock(Local, t)
        next == Date(Local, (w - (w % Day)) + cfg.ScheduledHour * Hour)
    IN  IF next < t THEN next + 24 * Hour ELSE next

shouldUpdateNoForce(cfg, file, t) ==
    IF cfg.CurrentVersion = "dev" THEN FALSE
    ELSE ~(readTime(file, t) > t)

shouldUpdateForceFirst(cfg, file, t) ==
    IF cfg.ForceCheck THEN TRUE
    ELSE IF cfg.CurrentVersion = "dev" THEN FALSE
    ELSE ~(readTime(file, t) > t)

\* Updater.shouldUpdate
shouldUpdate(cfg, file, t) ==
    IF cfg.CurrentVersion = "dev" THEN FALSE
    ELSE IF cfg.ForceCheck THEN TRUE
    ELSE ~(readTime(file, t) > t)

HasPolicyHourOnly(cfg) == cfg.HasScheduledHour

\* does setNextUpdateTime write anything for this configuration
HasPolicy(cfg) == cfg.HasScheduledHour \/ cfg.CheckTime > 0

nextUpdateTimeNoUnit(cfg, t) ==
    IF cfg.HasScheduledHour THEN calculateScheduledTime(cfg, t)
    ELSE t + cfg.CheckTime

\* the time setNextUpdateTime hands to writeTime
nextUpdateTime(cfg, t) ==
    IF cfg.HasScheduledHour THEN calculateScheduledTime(cfg, t)
    ELSE t + cfg.CheckTime * Hour

\* Updater.setNextUpdateTime
setNextUpdateTime(cfg, file, t, outcome) ==
    IF HasPolicy(cfg) THEN writeTime(file, nextUpdateTime(cfg, t), outcome)
    ELSE file

\* The interval policy of the scheduler revision (IntervalScheduler).  The
\* random source is time.Now().UnixNano(), not negative for a clock after 1970.
MaxCheckTime == 2
MaxRandomize == 2
MaxRand == 3
RandValues == 0..MaxRand

randIntWide(min, max, r) ==
    IF min = max THEN min ELSE min + (r % (max - min + 2))

\* randInt(min, max) for the value r of randSource()
randInt(min, max, r) ==
    IF min = max THEN min ELSE min + (r % (max - min + 1))

\* the time IntervalScheduler.SetNextUpdate hands to writeTime
intervalNextUpdate(checkTime, randomizeTime, t, r) ==
    LET next == t + checkTime * Hour
    IN  IF randomizeTime > 0 THEN next + randInt(0, randomizeTime, r) * Hour ELSE next

---------------------------------------------------------------------------
(* The Updater (selfupdate.go) *)

stableChannel == "stable"

EmptyInfo == [Version |-> "", Sha256 |-> <<>>, Channel |-> ""]

\* no manifest was decoded (in this cycle)
NoDecoded == [Version |-> "", Sha256 |-> <<>>, Channel |-> "-"]

\* the channel fetchInfo and fetchAndVerifyFullBin request
requestedChannel(cfg) == IF cfg.Channel = "" THEN stableChannel ELSE cfg.Channel

\* the base URLs of the tests' Updater, and one that does not end in a slash
TestApiURL == "http://updates.yourdomain.com/"
TestBinURL == "http://updates.yourdownmain.com/"
BareURL == "http://localhost:8080"
SlashedURLs == {TestApiURL, TestBinURL, "http://localhost:8080/"}
Slashed(base) == IF base = BareURL THEN "http://localhost:8080/" ELSE base

\* runtime.GOOS + "-" + runtime.GOARCH, for the amd64 builds
platform(goos) == IF goos = "windows" THEN "windows-amd64" ELSE "linux-amd64"

\* url.PathEscape on the names considered: a space and a slash are
\* percent-encoded, a plus sign and a dot are kept
PathEscape(s) ==
    CASE s = "my app" -> "my%20app"
      [] s = "a/b" -> "a%2Fb"
      [] OTHER -> s

\* os.PathSeparator
Separator(goos) == IF goos = "windows" THEN "\\" ELSE "/"

\* filepath.Clean on a relative path, kept as the sequence of its elements:
\* empty elements and "." are dropped, ".." removes the element before it
RECURSIVE Clean(_, _)
Clean(out, elems) ==
    IF elems = <<>> THEN out
    ELSE LET e == Head(elems) IN
         Clean(CASE e \in {"", "."} -> out
                 [] e = ".." /\ out # <<>> /\ out[Len(out)] # ".." ->
                        SubSeq(out, 1, Len(out) - 1)
                 [] OTHER -> Append(out, e),
               Tail(elems))

\* filepath.Join(path, elems...): the elements that are not empty are joined with
\* the separator and the result is cleaned; none gives "", an empty result "."
Join(path, elems) ==
    LET all == SelectSeq(path \o elems, LAMBDA e : e # "")
        cleaned == Clean(<<>>, all)
    IN  IF all = <<>> THEN <<>> ELSE IF cleaned = <<>> THEN <<".">> ELSE cleaned

\* the path fetchInfo and fetchAndVerifyFullBin start from: the escaped app
\* name, then the escaped channel unless it is the stable one
urlPath(cfg) ==
    LET channel == requestedChannel(cfg)
        app == <<PathEscape(cfg.CmdName)>>
    IN  IF channel # stableChannel THEN Join(app, <<PathEscape(channel)>>) ELSE app

\* the URL fetchInfo requests: the base, then the elements of the path written
\* with the separator of the build's operating system, then the extension
fetchInfoURL(cfg, goos) ==
    [base |-> cfg.ApiURL, sep |-> Separator(goos),
     path |-> Join(urlPath(cfg), <<PathEscape(platform(goos))>>), ext |-> ".json"]

\* the URL fetchAndVerifyFullBin requests
fetchBinURL(cfg, info, goos) ==
    [base |-> cfg.BinURL, sep |-> Separator(goos),
     path |-> Join(urlPath(cfg), <<PathEscape(info.Version), PathEscape(platform(goos))>>),
     ext |-> ".gz"]

\* what a Requester can serve as the manifest
ShortHash == [i \in 1..(sha256Size - 1) |-> 0]
LongHash == [i \in 1..(sha256Size + 1) |-> 0]
ManifestHashes == {Sha256Sum("binA"), ShortHash}
ManifestInfos ==
    [Version : {"1.0", "2.0"}, Sha256 : ManifestHashes, Channel : {"stable", "beta"}]
        \cup [Version : {"2.0"}, Sha256 : {LongHash}, Channel : {"stable"}]
        \cup {EmptyInfo}
ManifestResponses ==
    {[kind |-> "error", info |-> EmptyInfo],
     [kind |-> "nil", info |-> EmptyInfo],
     [kind |-> "garbage", info |-> EmptyInfo]}
        \cup {[kind |-> "json", info |-> m] : m \in ManifestInfos}

\* what a Requester can serve as the binary
BinResponses ==
    {[kind |-> "error", payload |-> Absent],
     [kind |-> "nil", payload |-> Absent],
     [kind |-> "notgzip", payload |-> Absent],
     [kind |-> "readerror", payload |-> Absent]}
        \cup {[kind |-> "gzip", payload |-> b] : b \in Payloads}

validateInfoChannelFirst(cfg, info) ==
    IF info.Channel # requestedChannel(cfg) THEN "ErrChannelMismatch"
    ELSE IF Len(info.Sha256) # sha256Size THEN "ErrInvalidHash"
    ELSE ""

validateInfoNoChannel(cfg, info) ==
    IF Len(info.Sha256) # sha256Size THEN "ErrInvalidHash" ELSE ""

\* the validation of a decoded manifest in fetchInfo: "" when it is accepted
validateInfo(cfg, info) ==
    IF Len(info.Sha256) # sha256Size THEN "ErrInvalidHash"
    ELSE IF info.Channel # requestedChannel(cfg) THEN "ErrChannelMismatch"
    ELSE ""

\* Updater.fetchInfo on a response: the error it returns, "" for none
fetchInfo(cfg, resp) ==
    CASE resp.kind = "error" -> "ErrFetchInfo"
      [] resp.kind = "nil" -> "panic"
      [] resp.kind = "garbage" -> "ErrDecode"
      [] OTHER -> validateInfo(cfg, resp.info)

\* Updater.fetchAndVerifyFullBin on a response: the error it returns, "" for none
fetchAndVerifyFullBin(info, resp) ==
    CASE resp.kind = "error" -> "ErrFetchBin"
      [] resp.kind = "nil" -> "panic"
      [] resp.kind = "notgzip" -> "ErrGzip"
      [] resp.kind = "readerror" -> "ErrRead"
      [] OTHER -> IF verifyHash(resp.payload, info.Sha256) THEN "" ELSE "ErrHashMismatch"

versionEqualChannel(info, cfg) == info.Channel = cfg.CurrentVersion

\* Update: u.Info.Version == u.CurrentVersion
versionEqual(info, cfg) == info.Version = cfg.CurrentVersion

Return(r) == pc' = "idle" /\ result' = r

InLog(e) == \E i \in 1..Len(log) : log[i] = e

\* the errors of a cycle that got past the write of the time file
Failed ==
    {"ErrNoRequester", "ErrFetchInfo", "ErrDecode", "ErrInvalidHash", "ErrChannelMismatch",
     "ErrFetchBin", "ErrGzip", "ErrRead", "ErrHashMismatch",
     "ErrWriteNew", "ErrRenameOld", "ErrRenameNew", "ErrRecover"}

\* the errors of applyUpdate after which the old binary is in place
Retryable == {"ErrWriteNew", "ErrRenameOld", "ErrRenameNew"}

ScheduledHours == {0, 1}
CheckTimes == {0, 1}
Configs ==
    [CurrentVersion : {"dev", "1.0"}, ForceCheck : BOOLEAN, Channel : {"", "beta"},
     HasScheduledHour : {TRUE}, ScheduledHour : ScheduledHours, CheckTime : {0},
     RandomizeTime : {0}, HasRequester : BOOLEAN, HasCallback : {TRUE},
     CmdName : {"myapp"}, ApiURL : {TestApiURL}, BinURL : {TestBinURL}]
    \cup
    [CurrentVersion : {"dev", "1.0"}, ForceCheck : BOOLEAN, Channel : {"", "beta"},
     HasScheduledHour : {FALSE}, ScheduledHour : {0}, CheckTime : CheckTimes,
     RandomizeTime : {0}, HasRequester : BOOLEAN, HasCallback : {TRUE},
     CmdName : {"myapp"}, ApiURL : {TestApiURL}, BinURL : {TestBinURL}]

InitFiles == {MissingFile, CorruptFile, UnreadableFile, ValidFile(0), ValidFile(Hour)}

UpdaterInit ==
    /\ u \in Configs
    /\ Info = EmptyInfo
    /\ pc = "idle"
    /\ cktime \in InitFiles
    /\ fs = [exec |-> OldBin, new |-> Absent, old |-> Absent]
    /\ decoded = NoDecoded
    /\ payload = Absent
    /\ bin = Absent
    /\ log = <<>>
    /\ result = "none"
    /\ due = FALSE
    /\ started = 0
    /\ prev = [failed |-> FALSE, wrote |-> FALSE, immediate |-> FALSE, retry |-> FALSE]
    /\ fs0 = [exec |-> fs.exec, old |-> fs.old]
    /\ faults = FALSE
    /\ applied = EmptyInfo
    /\ Local = UTC
    /\ GOOS = "linux"
    /\ fetched = <<>>

StartAlwaysProbes ==
    /\ pc = "idle"
    /\ started' = now
    /\ log' = <<"mkdir">>
    /\ bin' = Absent /\ decoded' = NoDecoded /\ payload' = Absent
    /\ \E mk \in BOOLEAN :
         IF ~mk THEN due' = FALSE /\ Return("ErrMkdir")
         ELSE /\ due' = shouldUpdate(u, cktime, now)
              /\ pc' = "canUpdate" /\ result' = "running"
    /\ LET failed == due /\ result \in Failed IN
       prev' = [failed |-> failed, wrote |-> failed /\ InLog("writeTime"),
                immediate |-> failed /\ started = now,
                retry |-> failed /\ result \in Retryable]
    /\ fs0' = [exec |-> fs.exec, old |-> fs.old]
    /\ faults' = FALSE
    /\ applied' = IF result = "nil" /\ InLog("rmOldFinal") THEN Info ELSE applied
    /\ fetched' = <<>>
    /\ UNCHANGED <<u, Local, GOOS, Info, now, cktime, fs>> /\ UNCHANGED pvars

\* BackgroundRun up to the due check: os.MkdirAll, then shouldUpdate
Start ==
    /\ pc = "idle"
    /\ started' = now
    /\ log' = <<"mkdir">>
    /\ bin' = Absent /\ decoded' = NoDecoded /\ payload' = Absent
    /\ \E mk \in BOOLEAN :
         IF ~mk THEN due' = FALSE /\ Return("ErrMkdir")
         ELSE /\ due' = shouldUpdate(u, cktime, now)
              /\ IF due' THEN pc' = "canUpdate" /\ result' = "running"
                 ELSE Return("nil")
    /\ LET failed == due /\ result \in Failed IN
       prev' = [failed |-> failed, wrote |-> failed /\ InLog("writeTime"),
                immediate |-> failed /\ started = now,
                retry |-> failed /\ result \in Retryable]
    /\ fs0' = [exec |-> fs.exec, old |-> fs.old]
    /\ faults' = FALSE
    /\ applied' = IF result = "nil" /\ InLog("rmOldFinal") THEN Info ELSE applied
    /\ fetched' = <<>>
    /\ UNCHANGED <<u, Local, GOOS, Info, now, cktime, fs>> /\ UNCHANGED pvars

CanUpdateIgnored ==
    /\ pc = "canUpdate"
    /\ log' = Append(log, "probe")
    /\ \E outcome \in {"ok", "openfailed", "removefailed"} :
         CASE outcome = "ok" ->
                /\ fs' = [fs EXCEPT !.new = Absent]
                /\ pc' = "setNext" /\ result' = result
           [] outcome = "openfailed" ->
                /\ fs' = fs
                /\ pc' = "setNext" /\ result' = "ErrCanUpdate"
           [] OTHER ->
                /\ fs' = [fs EXCEPT !.new = Partial]
                /\ Return("ErrCanUpdate")
    /\ UNCHANGED <<u, Local, GOOS, fetched, Info, now, cktime, bin, due, started, decoded, payload, prev, fs0, faults, applied>> /\ UNCHANGED pvars

\* canUpdate: create (truncating) and remove the probe file .name.new
CanUpdate ==
    /\ pc = "canUpdate"
    /\ log' = Append(log, "probe")
    /\ \E outcome \in {"ok", "openfailed", "removefailed"} :
         CASE outcome = "ok" ->
                /\ fs' = [fs EXCEPT !.new = Absent]
                /\ pc' = "setNext" /\ result' = result
           [] outcome = "openfailed" ->
                /\ fs' = fs
                /\ Return("ErrCanUpdate")
           [] OTHER ->
                /\ fs' = [fs EXCEPT !.new = Partial]
                /\ Return("ErrCanUpdate")
    /\ UNCHANGED <<u, Local, GOOS, fetched, Info, now, cktime, bin, due, started, decoded, payload, prev, fs0, faults, applied>> /\ UNCHANGED pvars

\* u.setNextUpdateTime()
SetNextUpdateTime ==
    /\ pc = "setNext"
    /\ \E outcome \in WriteOutcomes :
         /\ cktime' = setNextUpdateTime(u, cktime, now, outcome)
         /\ log' = IF ~HasPolicy(u) THEN log
                   ELSE IF outcome = "ok" THEN Append(log, "writeTime")
                   ELSE Append(log, "writeTimeFailed")
    /\ pc' = "fetchInfo"
    /\ UNCHANGED <<u, Local, GOOS, fetched, Info, now, fs, bin, result, due, started, decoded, payload, prev, fs0, faults, applied>> /\ UNCHANGED pvars

\* Update: u.fetchInfo, then the version comparison
FetchInfo ==
    /\ pc = "fetchInfo"
    /\ IF ~u.HasRequester
       THEN /\ Return("ErrNoRequester")
            /\ UNCHANGED <<Info, log, decoded, fetched>>
       ELSE \E resp \in ManifestResponses :
              LET err == fetchInfo(u, resp) IN
              /\ fetched' = Append(fetched, fetchInfoURL(u, GOOS))
              /\ decoded' = IF resp.kind = "json" THEN resp.info ELSE NoDecoded
              /\ IF err # ""
                 THEN /\ Info' = Info
                      /\ log' = Append(log, "fetchInfo")
                      /\ Return(err)
                 ELSE /\ Info' = resp.info
                      /\ log' = log \o <<"fetchInfo", "accept">>
                      /\ IF versionEqual(resp.info, u)
                         THEN Return("nil")
                         ELSE pc' = "fetchBin" /\ result' = result
    /\ UNCHANGED <<u, Local, GOOS, now, cktime, fs, payload, bin, due, started, prev, fs0, faults, applied>> /\ UNCHANGED pvars

\* Update: u.fetchAndVerifyFullBin
FetchBin ==
    /\ pc = "fetchBin"
    /\ IF ~u.HasRequester
       THEN /\ Return("ErrNoRequester")
            /\ UNCHANGED <<bin, log, payload, fetched>>
       ELSE /\ log' = Append(log, "fetchBin")
            /\ fetched' = Append(fetched, fetchBinURL(u, Info, GOOS))
            /\ \E resp \in BinResponses :
                 LET err == fetchAndVerifyFullBin(Info, resp) IN
                 /\ payload' = resp.payload
                 /\ IF err # "" THEN bin' = bin /\ Return(err)
                    ELSE /\ bin' = resp.payload
                         /\ pc' = "rmNew" /\ result' = result
    /\ UNCHANGED <<u, Local, GOOS, Info, now, cktime, fs, decoded, due, started, prev, fs0, faults, applied>> /\ UNCHANGED pvars

---------------------------------------------------------------------------
(* applyUpdate, one file operation per step *)

\* os.Remove(newPath), error ignored
RemoveStaleNew ==
    /\ pc = "rmNew"
    /\ log' = Append(log, "rmNew")
    /\ \E ok \in BOOLEAN :
         /\ fs' = IF ok THEN [fs EXCEPT !.new = Absent] ELSE fs
         /\ faults' = (faults \/ ~ok)
    /\ pc' = "rmOld"
    /\ UNCHANGED <<u, Local, GOOS, fetched, Info, now, cktime, bin, result, due, started, decoded, payload, prev, fs0, applied>> /\ UNCHANGED pvars

\* os.Remove(oldPath), error ignored
RemoveStaleOld ==
    /\ pc = "rmOld"
    /\ log' = Append(log, "rmOld")
    /\ \E ok \in BOOLEAN :
         /\ fs' = IF ok THEN [fs EXCEPT !.old = Absent] ELSE fs
         /\ faults' = (faults \/ ~ok)
    /\ pc' = "openNew"
    /\ UNCHANGED <<u, Local, GOOS, fetched, Info, now, cktime, bin, result, due, started, decoded, payload, prev, fs0, applied>> /\ UNCHANGED pvars

OpenNewInPlace ==
    /\ pc = "openNew"
    /\ log' = Append(log, "openNew")
    /\ \E ok \in BOOLEAN :
         /\ faults' = (faults \/ ~ok)
         /\ IF ok THEN fs' = [fs EXCEPT !.exec = Partial] /\ pc' = "writeNew" /\ result' = result
            ELSE fs' = fs /\ Return("ErrWriteNew")
    /\ UNCHANGED <<u, Local, GOOS, fetched, Info, now, cktime, bin, due, started, decoded, payload, prev, fs0, applied>> /\ UNCHANGED pvars

\* os.WriteFile(newPath, newBin, 0755): the file is created or truncated ...
OpenNew ==
    /\ pc = "openNew"
    /\ log' = Append(log, "openNew")
    /\ \E ok \in BOOLEAN :
         /\ faults' = (faults \/ ~ok)
         /\ IF ok THEN fs' = [fs EXCEPT !.new = Partial] /\ pc' = "writeNew" /\ result' = result
            ELSE fs' = fs /\ Return("ErrWriteNew")
    /\ UNCHANGED <<u, Local, GOOS, fetched, Info, now, cktime, bin, due, started, decoded, payload, prev, fs0, applied>> /\ UNCHANGED pvars

\* ... and then the bytes are written
WriteNew ==
    /\ pc = "writeNew"
    /\ log' = Append(log, "writeNew")
    /\ \E ok \in BOOLEAN :
         /\ faults' = (faults \/ ~ok)
         /\ IF ok THEN fs' = [fs EXCEPT !.new = bin] /\ pc' = "renameOld" /\ result' = result
            ELSE fs' = fs /\ Return("ErrWriteNew")
    /\ UNCHANGED <<u, Local, GOOS, fetched, Info, now, cktime, bin, due, started, decoded, payload, prev, fs0, applied>> /\ UNCHANGED pvars

\* os.Rename(execPath, oldPath)
RenameExecToOld ==
    /\ pc = "renameOld"
    /\ log' = Append(log, "renameOld")
    /\ \E ok \in BOOLEAN :
         /\ faults' = (faults \/ ~ok)
         /\ IF ok /\ fs.exec # Absent
            THEN /\ fs' = [fs EXCEPT !.old = fs.exec, !.exec = Absent]
                 /\ pc' = "renameNew" /\ result' = result
            ELSE fs' = fs /\ Return("ErrRenameOld")
    /\ UNCHANGED <<u, Local, GOOS, fetched, Info, now, cktime, bin, due, started, decoded, payload, prev, fs0, applied>> /\ UNCHANGED pvars

\* os.Rename(newPath, execPath)
RenameNewToExec ==
    /\ pc = "renameNew"
    /\ log' = Append(log, "renameNew")
    /\ \E ok \in BOOLEAN :
         /\ faults' = (faults \/ ~ok)
         /\ IF ok /\ fs.new # Absent
            THEN /\ fs' = [fs EXCEPT !.exec = fs.new, !.new = Absent]
                 /\ pc' = "rmOldFinal"
            ELSE fs' = fs /\ pc' = "rollback"
    /\ UNCHANGED <<u, Local, GOOS, fetched, Info, now, cktime, bin, result, due, started, decoded, payload, prev, fs0, applied>> /\ UNCHANGED pvars

RollbackReturnsNil ==
    /\ pc = "rollback"
    /\ log' = Append(log, "rollback")
    /\ \E ok \in BOOLEAN :
         /\ faults' = (faults \/ ~ok)
         /\ IF ok /\ fs.old # Absent
            THEN /\ fs' = [fs EXCEPT !.exec = fs.old, !.old = Absent]
                 /\ pc' = "callback" /\ result' = result
            ELSE fs' = fs /\ Return("ErrRecover")
    /\ UNCHANGED <<u, Local, GOOS, fetched, Info, now, cktime, bin, due, started, decoded, payload, prev, fs0, applied>> /\ UNCHANGED pvars

RollbackSameError ==
    /\ pc = "rollback"
    /\ log' = Append(log, "rollback")
    /\ \E ok \in BOOLEAN :
         /\ faults' = (faults \/ ~ok)
         /\ fs' = IF ok /\ fs.old # Absent THEN [fs EXCEPT !.exec = fs.old, !.old = Absent]
                  ELSE fs
         /\ Return("ErrRenameNew")
    /\ UNCHANGED <<u, Local, GOOS, fetched, Info, now, cktime, bin, due, started, decoded, payload, prev, fs0, applied>> /\ UNCHANGED pvars

RollbackForgotten ==
    /\ pc = "rollback"
    /\ log' = Append(log, "rollback")
    /\ faults' = faults
    /\ fs' = fs
    /\ Return("ErrRenameNew")
    /\ UNCHANGED <<u, Local, GOOS, fetched, Info, now, cktime, bin, due, started, decoded, payload, prev, fs0, applied>> /\ UNCHANGED pvars

\* os.Rename(oldPath, execPath) after the final rename failed
Rollback ==
    /\ pc = "rollback"
    /\ log' = Append(log, "rollback")
    /\ \E ok \in BOOLEAN :
         /\ faults' = (faults \/ ~ok)
         /\ IF ok /\ fs.old # Absent
            THEN /\ fs' = [fs EXCEPT !.exec = fs.old, !.old = Absent]
                 /\ Return("ErrRenameNew")
            ELSE fs' = fs /\ Return("ErrRecover")
    /\ UNCHANGED <<u, Local, GOOS, fetched, Info, now, cktime, bin, due, started, decoded, payload, prev, fs0, applied>> /\ UNCHANGED pvars

\* os.Remove(oldPath) after the swap, failure only logged
RemoveOld ==
    /\ pc = "rmOldFinal"
    /\ log' = Append(log, "rmOldFinal")
    /\ \E ok \in BOOLEAN :
         /\ fs' = IF ok THEN [fs EXCEPT !.old = Absent] ELSE fs
         /\ faults' = (faults \/ ~ok)
    /\ pc' = "callback"
    /\ UNCHANGED <<u, Local, GOOS, fetched, Info, now, cktime, bin, result, due, started, decoded, payload, prev, fs0, applied>> /\ UNCHANGED pvars

\* Update after applyUpdate returned nil: OnSuccessfulUpdate, return nil
Callback ==
    /\ pc = "callback"
    /\ log' = IF u.HasCallback THEN Append(log, "callback") ELSE log
    /\ Return("nil")
    /\ UNCHANGED <<u, Local, GOOS, fetched, Info, now, cktime, fs, bin, due, started, decoded, payload, prev, fs0, faults, applied>> /\ UNCHANGED pvars

\* the process is stopped between two steps; a new process starts idle, with
\* no history of cycles
Kill ==
    /\ pc # "idle"
    /\ Return("killed")
    /\ Info' = EmptyInfo
    /\ bin' = Absent
    /\ decoded' = NoDecoded /\ payload' = Absent
    /\ applied' = EmptyInfo
    /\ log' = <<>> /\ due' = FALSE /\ started' = now /\ faults' = FALSE
    /\ prev' = [failed |-> FALSE, wrote |-> FALSE, immediate |-> FALSE, retry |-> FALSE]
    /\ fs0' = [exec |-> fs.exec, old |-> fs.old]
    /\ fetched' = <<>>
    /\ UNCHANGED <<u, Local, GOOS, now, cktime, fs>> /\ UNCHANGED pvars

\* time passes between cycles
Tick ==
    /\ pc = "idle"
    /\ \E t \in {now + 1, ((now \div Hour) + 1) * Hour} :
         /\ t <= MaxNow
         /\ (t = now + 1 => now % Hour = 0)
         /\ now' = t
    /\ UNCHANGED uvars /\ UNCHANGED pvars

---------------------------------------------------------------------------
(* The channel promoter (aws/lambda/promote_update.go) *)

minTimeInDev == 24 * Hour
minTimeInBeta == 72 * Hour

Versions == {"v1", "v2"}
Channels == {"dev", "beta", "stable"}

\* the object keys promoteUpdate writes, as the elements between the slashes and
\* the extension: "myapp/{channel}/{version}.json" for the manifest and
\* "myapp/{channel}/{version}/binary.gz" for the binary
destKey(toChannel, version) ==
    [path |-> <<"myapp", toChannel, version>>, ext |-> ".json"]
destBinKey(toChannel, version) ==
    [path |-> <<"myapp", toChannel, version, "binary">>, ext |-> ".gz"]
NoManifest == [Version |-> "", Sha256 |-> <<>>, Channel |-> "", Date |-> 0, present |-> FALSE]
Manifest(v, h, ch, d) == [Version |-> v, Sha256 |-> h, Channel |-> ch, Date |-> d, present |-> TRUE]

PayloadOf(v) == IF v = "v1" THEN "binA" ELSE "binB"

Scanners == {1, 2}
MaxScans == 2

NoAttempts == [v \in Versions |-> ""]

\* one invocation of the handler: its position, the items Scan returned, the
\* items not yet iterated, the arguments and locals of promoteUpdate, and a
\* journal of the invocation (its number, the clock and the objects when it
\* scanned, what it started, whether a call failed, the versions whose
\* promoteUpdate returned an error)
IdleScanner ==
    [pc |-> "idle", snap |-> <<>>, todo |-> {}, version |-> "", from |-> "", to |-> "",
     updateInfo |-> NoManifest, ret |-> "none",
     id |-> 0, at |-> 0, m0 |-> <<>>, b0 |-> <<>>, clean |-> TRUE,
     attempt |-> NoAttempts, failed |-> {}]

\* the journal entry of an invocation that has not returned
NoSummary ==
    [done |-> FALSE, clean |-> FALSE, at |-> 0, pre |-> <<>>, post |-> <<>>,
     same |-> <<>>]

\* UpdateRecord as attributevalue.UnmarshalMap decodes it; ok is FALSE for an
\* item that does not decode
Record(ch, d, da, ba) ==
    [channel |-> ch, date |-> d, dev_approved |-> da, beta_approved |-> ba, ok |-> TRUE]
BadRecord == [channel |-> "dev", date |-> 0, dev_approved |-> FALSE, beta_approved |-> FALSE, ok |-> FALSE]

devGateStrict(r, t) == r.channel = "dev" /\ t - r.date > minTimeInDev /\ ~r.dev_approved

\* time.Since(record.Date) >= minTimeInDev && !record.DevApproved, in case "dev"
devGate(r, t) == r.channel = "dev" /\ t - r.date >= minTimeInDev /\ ~r.dev_approved

betaGateUnapproved(r, t) ==
    r.channel = "beta" /\ t - r.date >= minTimeInBeta /\ ~r.dev_approved /\ ~r.beta_approved

\* time.Since(record.Date) >= minTimeInBeta && record.DevApproved &&
\* !record.BetaApproved, in case "beta"
betaGate(r, t) ==
    r.channel = "beta" /\ t - r.date >= minTimeInBeta /\ r.dev_approved /\ ~r.beta_approved

\* the promotion checkAndPromote starts for a decoded record: <<from, to>>, or <<>>
promotionFor(r, t) ==
    IF ~r.ok THEN <<>>
    ELSE IF devGate(r, t) THEN <<"dev", "beta">>
    ELSE IF betaGate(r, t) THEN <<"beta", "stable">>
    ELSE <<>>

updatedRecordKeepsDate(r, toChannel, t) ==
    IF toChannel = "beta"
    THEN [r EXCEPT !.channel = "beta", !.dev_approved = TRUE]
    ELSE IF toChannel = "stable"
    THEN [r EXCEPT !.channel = "stable", !.beta_approved = TRUE]
    ELSE r

updatedRecordBothFlags(r, toChannel, t) ==
    [r EXCEPT !.channel = toChannel, !.dev_approved = TRUE, !.beta_approved = TRUE,
              !.date = ParseRFC3339(FormatRFC3339(t))]

updatedRecordNoFlag(r, toChannel, t) ==
    [r EXCEPT !.channel = toChannel, !.date = ParseRFC3339(FormatRFC3339(t))]

updatedRecordOneStep(r, toChannel, t) ==
    [r EXCEPT !.channel = "stable", !.dev_approved = TRUE, !.beta_approved = TRUE,
              !.date = ParseRFC3339(FormatRFC3339(t))]

\* the record UpdateItem leaves: the SET expression of promoteUpdate, no condition
updatedRecord(r, toChannel, t) ==
    IF toChannel = "beta"
    THEN [r EXCEPT !.channel = "beta", !.dev_approved = TRUE,
                   !.date = ParseRFC3339(FormatRFC3339(t))]
    ELSE IF toChannel = "stable"
    THEN [r EXCEPT !.channel = "stable", !.beta_approved = TRUE,
                   !.date = ParseRFC3339(FormatRFC3339(t))]
    ELSE r

\* the approval flag a promotion to toChannel sets
approvalFlag(r, toChannel) == IF toChannel = "beta" THEN r.dev_approved ELSE r.beta_approved

\* are the objects of version v what they were when invocation s scanned
SameObjects(s, v) ==
    \A ch \in Channels :
        manifests[ch][v] = sc[s].m0[ch][v] /\ binaries[ch][v] = sc[s].b0[ch][v]

InitRecords ==
    {Record("dev", 0, FALSE, FALSE), Record("beta", 0, FALSE, FALSE),
     Record("beta", 0, TRUE, FALSE), BadRecord}

PromoterInit ==
    /\ table \in [Versions -> InitRecords]
    /\ table["v1"] # BadRecord
    /\ table["v2"] \in {Record("dev", 0, FALSE, FALSE), BadRecord}
    /\ manifests = [ch \in Channels |-> [v \in Versions |->
             IF table[v].channel = ch
             THEN Manifest(v, Sha256Sum(PayloadOf(v)), ch, table[v].date)
             ELSE NoManifest]]
    /\ binaries = [ch \in Channels |-> [v \in Versions |->
             IF table[v].channel = ch THEN PayloadOf(v) ELSE Absent]]
    /\ sc = [s \in Scanners |-> IdleScanner]
    /\ bucketSet \in BOOLEAN
    /\ recorded = [v \in Versions |-> <<>>]
    /\ scanNo = 0
    /\ scans = [k \in 1..MaxScans |-> NoSummary]

\* checkAndPromote: dynamoClient.Scan
Scan(s) ==
    /\ sc[s].pc = "idle"
    /\ s <= concurrency
    /\ scanNo < MaxScans
    /\ scanNo' = scanNo + 1
    /\ \E ok \in BOOLEAN :
         IF ok
         THEN /\ sc' = [sc EXCEPT ![s] = [IdleScanner EXCEPT
                           !.pc = "loop", !.snap = table, !.todo = Versions,
                           !.ret = "running", !.id = scanNo + 1, !.at = now,
                           !.m0 = manifests, !.b0 = binaries]]
              /\ scans' = scans
         ELSE /\ sc' = [sc EXCEPT ![s] = [IdleScanner EXCEPT !.ret = "ErrScan"]]
              /\ scans' = [scans EXCEPT ![scanNo + 1] =
                              [done |-> TRUE, clean |-> FALSE, at |-> now,
                               pre |-> table, post |-> table,
                               same |-> [v \in Versions |-> TRUE]]]
    /\ UNCHANGED <<table, manifests, binaries, bucketSet, concurrency, recorded, now>>
    /\ UNCHANGED uvars

\* checkAndPromote: one iteration of the loop over result.Items, up to the call
\* of promoteUpdate and its BUCKET_NAME check; the return when no item is left
Loop(s) ==
    /\ sc[s].pc = "loop"
    /\ IF sc[s].todo = {}
       THEN /\ sc' = [sc EXCEPT ![s] = [IdleScanner EXCEPT !.ret = "nil"]]
            /\ scans' = [scans EXCEPT ![sc[s].id] =
                            [done |-> TRUE, clean |-> sc[s].clean, at |-> sc[s].at,
                             pre |-> sc[s].snap, post |-> table,
                             same |-> [v \in Versions |-> SameObjects(s, v)]]]
       ELSE /\ \E v \in sc[s].todo :
                 LET p == promotionFor(sc[s].snap[v], now) IN
                 IF p = <<>>
                 THEN sc' = [sc EXCEPT ![s].todo = @ \ {v}]
                 ELSE IF ~bucketSet
                 THEN sc' = [sc EXCEPT ![s].todo = @ \ {v},
                                       ![s].attempt[v] = p[2], ![s].clean = FALSE,
                                       ![s].failed = @ \cup {v}]
                 ELSE sc' = [sc EXCEPT ![s].todo = @ \ {v},
                                       ![s].attempt[v] = p[2], ![s].pc = "get",
                                       ![s].version = v, ![s].from = p[1], ![s].to = p[2]]
            /\ scans' = scans
    /\ UNCHANGED <<table, manifests, binaries, bucketSet, concurrency, recorded, scanNo, now>>
    /\ UNCHANGED uvars

\* promoteUpdate: GetObject of the source manifest, decode, set Channel and Date
GetObject(s) ==
    /\ sc[s].pc = "get"
    /\ LET src == manifests[sc[s].from][sc[s].version] IN
       \E ok \in BOOLEAN :
         IF ok /\ src.present
         THEN sc' = [sc EXCEPT ![s].pc = "put",
                               ![s].updateInfo = [src EXCEPT !.Channel = sc[s].to, !.Date = now]]
         ELSE sc' = [sc EXCEPT ![s].pc = "loop", ![s].clean = FALSE,
                               ![s].failed = @ \cup {sc[s].version}]
    /\ UNCHANGED <<table, manifests, binaries, bucketSet, concurrency, recorded, scanNo,
                   scans, now>>
    /\ UNCHANGED uvars

PutObjectAborts(s) ==
    /\ sc[s].pc = "put"
    /\ \E ok \in BOOLEAN :
         IF ok
         THEN /\ manifests' = [manifests EXCEPT ![sc[s].to][sc[s].version] = sc[s].updateInfo]
              /\ sc' = [sc EXCEPT ![s].pc = "copy"]
         ELSE /\ manifests' = manifests
              /\ sc' = [sc EXCEPT ![s].pc = "loop", ![s].clean = FALSE, ![s].todo = {},
                                  ![s].failed = @ \cup {sc[s].version}]
    /\ UNCHANGED <<table, binaries, bucketSet, concurrency, recorded, scanNo, scans, now>>
    /\ UNCHANGED uvars

\* promoteUpdate: PutObject of the destination manifest
PutObject(s) ==
    /\ sc[s].pc = "put"
    /\ \E ok \in BOOLEAN :
         IF ok
         THEN /\ manifests' = [manifests EXCEPT ![sc[s].to][sc[s].version] = sc[s].updateInfo]
              /\ sc' = [sc EXCEPT ![s].pc = "copy"]
         ELSE /\ manifests' = manifests
              /\ sc' = [sc EXCEPT ![s].pc = "loop", ![s].clean = FALSE,
                               ![s].failed = @ \cup {sc[s].version}]
    /\ UNCHANGED <<table, binaries, bucketSet, concurrency, recorded, scanNo, scans, now>>
    /\ UNCHANGED uvars

CopyObjectIgnoresError(s) ==
    /\ sc[s].pc = "copy"
    /\ LET src == binaries[sc[s].from][sc[s].version] IN
       \E ok \in BOOLEAN :
         IF ok /\ src # Absent
         THEN /\ binaries' = [binaries EXCEPT ![sc[s].to][sc[s].version] = src]
              /\ sc' = [sc EXCEPT ![s].pc = "update"]
         ELSE /\ binaries' = binaries
              /\ sc' = [sc EXCEPT ![s].pc = "update", ![s].clean = FALSE]
    /\ UNCHANGED <<table, manifests, bucketSet, concurrency, recorded, scanNo, scans, now>>
    /\ UNCHANGED uvars

CopyObjectMoves(s) ==
    /\ sc[s].pc = "copy"
    /\ LET src == binaries[sc[s].from][sc[s].version] IN
       \E ok \in BOOLEAN :
         IF ok /\ src # Absent
         THEN /\ binaries' = [binaries EXCEPT ![sc[s].to][sc[s].version] = src,
                                              ![sc[s].from][sc[s].version] = Absent]
              /\ sc' = [sc EXCEPT ![s].pc = "update"]
         ELSE /\ binaries' = binaries
              /\ sc' = [sc EXCEPT ![s].pc = "loop", ![s].clean = FALSE,
                                  ![s].failed = @ \cup {sc[s].version}]
    /\ UNCHANGED <<table, manifests, bucketSet, concurrency, recorded, scanNo, scans, now>>
    /\ UNCHANGED uvars

\* promoteUpdate: CopyObject of the binary
CopyObject(s) ==
    /\ sc[s].pc = "copy"
    /\ LET src == binaries[sc[s].from][sc[s].version] IN
       \E ok \in BOOLEAN :
         IF ok /\ src # Absent
         THEN /\ binaries' = [binaries EXCEPT ![sc[s].to][sc[s].version] = src]
              /\ sc' = [sc EXCEPT ![s].pc = "update"]
         ELSE /\ binaries' = binaries
              /\ sc' = [sc EXCEPT ![s].pc = "loop", ![s].clean = FALSE,
                               ![s].failed = @ \cup {sc[s].version}]
    /\ UNCHANGED <<table, manifests, bucketSet, concurrency, recorded, scanNo, scans, now>>
    /\ UNCHANGED uvars

\* promoteUpdate: UpdateItem of the tracked record
UpdateItem(s) ==
    /\ sc[s].pc = "update"
    /\ \E ok \in BOOLEAN :
         IF ok
         THEN /\ table' = [table EXCEPT ![sc[s].version] = updatedRecord(@, sc[s].to, now)]
              /\ recorded' = [recorded EXCEPT ![sc[s].version] = Append(@,
                     [from |-> sc[s].from, to |-> sc[s].to,
                      before |-> table[sc[s].version].channel, scan |-> sc[s].id,
                      stale |-> approvalFlag(table[sc[s].version], sc[s].to)
                                  # approvalFlag(sc[s].snap[sc[s].version], sc[s].to)])]
              /\ sc' = [sc EXCEPT ![s].pc = "loop"]
         ELSE /\ UNCHANGED <<table, recorded>>
              /\ sc' = [sc EXCEPT ![s].pc = "loop", ![s].clean = FALSE,
                               ![s].failed = @ \cup {sc[s].version}]
    /\ UNCHANGED <<manifests, binaries, bucketSet, concurrency, scanNo, scans, now>>
    /\ UNCHANGED uvars

PromoterMaxHours == 97

\* time passes between invocations, which last far less than the hours between
\* the sampled instants: to (one tick before) the hour that is minTimeInDev or
\* minTimeInBeta later
PromoterTick ==
    /\ \A s \in Scanners : sc[s].pc = "idle"
    /\ \E t \in {((now + 1) \div Hour) * Hour + d - e :
                   d \in {minTimeInDev, minTimeInBeta}, e \in {0, 1}} :
         /\ t <= PromoterMaxHours * Hour
         /\ now' = t
    /\ UNCHANGED uvars /\ UNCHANGED pvars

---------------------------------------------------------------------------
(* Specifications *)

\* the update cycle of one installation
Init ==
    /\ UpdaterInit /\ now = 0
    /\ PromoterInit /\ concurrency = 1
    /\ \A v \in Versions : table[v] = Record("dev", 0, FALSE, FALSE)
    /\ bucketSet

Cycle ==
    \/ Start \/ CanUpdate \/ SetNextUpdateTime \/ FetchInfo \/ FetchBin
    \/ RemoveStaleNew \/ RemoveStaleOld \/ OpenNew \/ WriteNew
    \/ RenameExecToOld \/ RenameNewToExec \/ Rollback \/ RemoveOld \/ Callback

Next == Cycle \/ Kill \/ Tick

Spec == Init /\ [][Next]_vars

\* the promoter, its invocations free to overlap
PromoterIdleUpdater ==
    /\ UpdaterInit /\ now = 0
    /\ u = [CurrentVersion |-> "1.0", ForceCheck |-> FALSE, Channel |-> "",
            HasScheduledHour |-> FALSE, ScheduledHour |-> 0, CheckTime |-> 1,
            RandomizeTime |-> 0, HasRequester |-> TRUE, HasCallback |-> TRUE,
            CmdName |-> "myapp", ApiURL |-> TestApiURL, BinURL |-> TestBinURL]
    /\ cktime = MissingFile

PromoteInit ==
    /\ PromoterIdleUpdater /\ PromoterInit /\ concurrency = Cardinality(Scanners)
    /\ table["v2"] = BadRecord

Promote ==
    \E s \in Scanners :
        \/ Scan(s) \/ Loop(s) \/ GetObject(s) \/ PutObject(s) \/ CopyObject(s)
        \/ UpdateItem(s)

PromoteNext == Promote \/ PromoterTick

SpecPromote == PromoteInit /\ [][PromoteNext]_vars

\* the promoter, one invocation at a time
PromoteSeqInit == PromoterIdleUpdater /\ PromoterInit /\ concurrency = 1

SpecPromoteSeq == PromoteSeqInit /\ [][PromoteNext]_vars

\* the promoter under its periodic trigger, with a store and a table whose calls
\* do not fail: the handler is invoked at least once and at most MaxScans times
\* between two samples of the clock, which are a day or a tick less apart, and
\* an invocation that has started runs to its end
LiveMaxHours == 144

\* the calls of an invocation, each returning without an error
LiveStep(s) ==
    \/ Scan(s) /\ sc'[s].pc = "loop"
    \/ Loop(s)
    \/ GetObject(s) /\ sc'[s].pc = "put"
    \/ PutObject(s) /\ sc'[s].pc = "copy"
    \/ CopyObject(s) /\ sc'[s].pc = "update"
    \/ UpdateItem(s) /\ sc'[s].failed = sc[s].failed

\* the clock is sampled again; the journal of invocations starts afresh
LiveTick ==
    /\ \A s \in Scanners : sc[s].pc = "idle"
    /\ scanNo > 0
    /\ \E t \in {now + Day - 1, now + Day} :
         /\ t <= LiveMaxHours * Hour
         /\ now' = t
    /\ scanNo' = 0
    /\ scans' = [k \in 1..MaxScans |-> NoSummary]
    /\ UNCHANGED <<table, manifests, binaries, sc, bucketSet, concurrency, recorded>>
    /\ UNCHANGED uvars

LiveNext == (\E s \in Scanners : LiveStep(s)) \/ LiveTick

SpecPromoteLive ==
    /\ PromoteSeqInit
    /\ [][LiveNext]_vars
    /\ \A s \in Scanners : WF_vars(LiveStep(s))
    /\ WF_vars(LiveTick)

\* the daily policy over a day, in every hour and across a change of the
\* zone's offset: the cycle up to Update, which finds no Requester
DailyHours == 0..23
MaxDayHours == 24
DailyConfigs ==
    [CurrentVersion : {"1.0"}, ForceCheck : BOOLEAN, Channel : {""},
     HasScheduledHour : {TRUE}, ScheduledHour : DailyHours, CheckTime : {0},
     RandomizeTime : {0}, HasRequester : {FALSE}, HasCallback : {TRUE},
     CmdName : {"myapp"}, ApiURL : {TestApiURL}, BinURL : {TestBinURL}]

DailyInit ==
    /\ u \in DailyConfigs
    /\ Local \in Zones
    /\ GOOS = "linux" /\ fetched = <<>>
    /\ cktime \in {MissingFile, ValidFile(0)}
    /\ now = 0
    /\ Info = EmptyInfo /\ pc = "idle"
    /\ fs = [exec |-> OldBin, new |-> Absent, old |-> Absent]
    /\ decoded = NoDecoded /\ payload = Absent /\ bin = Absent
    /\ log = <<>> /\ result = "none" /\ due = FALSE /\ started = 0
    /\ prev = [failed |-> FALSE, wrote |-> FALSE, immediate |-> FALSE, retry |-> FALSE]
    /\ fs0 = [exec |-> fs.exec, old |-> fs.old]
    /\ faults = FALSE /\ applied = EmptyInfo
    /\ PromoterInit /\ concurrency = 1
    /\ \A v \in Versions : table[v] = Record("dev", 0, FALSE, FALSE)
    /\ bucketSet

\* the clock value at which the cycle runs: on an hour, or one tick before or
\* after it
DayInstants ==
    {x \in {k * Hour + d : k \in 0..MaxDayHours, d \in {0 - 1, 0, 1}} :
        x >= 0 /\ x <= MaxDayHours * Hour}

DayTick ==
    /\ pc = "idle" /\ log = <<>>
    /\ \E t \in DayInstants : t > now /\ now' = t
    /\ UNCHANGED uvars /\ UNCHANGED pvars

DailyNext == Start \/ CanUpdate \/ SetNextUpdateTime \/ FetchInfo \/ DayTick

SpecDaily == DailyInit /\ [][DailyNext]_vars

\* the interval policy, in both revisions: the cycle of selfupdate.go up to
\* Update, which finds no Requester, and IntervalScheduler.SetNextUpdate
IntervalConfigs ==
    [CurrentVersion : {"1.0"}, ForceCheck : BOOLEAN, Channel : {""},
     HasScheduledHour : {FALSE}, ScheduledHour : {0}, CheckTime : 1..MaxCheckTime,
     RandomizeTime : 0..MaxRandomize, HasRequester : {FALSE}, HasCallback : {TRUE},
     CmdName : {"myapp"}, ApiURL : {TestApiURL}, BinURL : {TestBinURL}]

IntervalInit ==
    /\ u \in IntervalConfigs
    /\ Local = UTC
    /\ GOOS = "linux" /\ fetched = <<>>
    /\ cktime \in {MissingFile, ValidFile(0)}
    /\ now = 0
    /\ Info = EmptyInfo /\ pc = "idle"
    /\ fs = [exec |-> OldBin, new |-> Absent, old |-> Absent]
    /\ decoded = NoDecoded /\ payload = Absent /\ bin = Absent
    /\ log = <<>> /\ result = "none" /\ due = FALSE /\ started = 0
    /\ prev = [failed |-> FALSE, wrote |-> FALSE, immediate |-> FALSE, retry |-> FALSE]
    /\ fs0 = [exec |-> fs.exec, old |-> fs.old]
    /\ faults = FALSE /\ applied = EmptyInfo
    /\ PromoterInit /\ concurrency = 1
    /\ \A v \in Versions : table[v] = Record("dev", 0, FALSE, FALSE)
    /\ bucketSet

\* IntervalScheduler.SetNextUpdate
SetNextUpdate ==
    /\ pc = "idle"
    /\ \E r \in RandValues, outcome \in WriteOutcomes :
         /\ cktime' = writeTime(cktime,
                         intervalNextUpdate(u.CheckTime, u.RandomizeTime, now, r), outcome)
         /\ log' = <<"SetNextUpdate", IF outcome = "ok" THEN "writeTime" ELSE "writeTimeFailed">>
    /\ started' = now
    /\ UNCHANGED <<u, Local, GOOS, fetched, Info, pc, now, fs, bin, result, due, decoded, payload, prev, fs0, faults, applied>>
    /\ UNCHANGED pvars

IntervalNext ==
    Start \/ CanUpdate \/ SetNextUpdateTime \/ FetchInfo \/ SetNextUpdate \/ Tick

SpecInterval == IntervalInit /\ [][IntervalNext]_vars

\* BackgroundRun invoked again and again while the clock advances, ForceCheck
\* off, a policy configured, any time file to begin with; os.MkdirAll succeeds
RepeatedConfigs == {cfg \in IntervalConfigs : ~cfg.ForceCheck}

RepeatedInit ==
    /\ u \in RepeatedConfigs
    /\ Local = UTC
    /\ GOOS = "linux" /\ fetched = <<>>
    /\ cktime \in InitFiles
    /\ now = 0
    /\ Info = EmptyInfo /\ pc = "idle"
    /\ fs = [exec |-> OldBin, new |-> Absent, old |-> Absent]
    /\ decoded = NoDecoded /\ payload = Absent /\ bin = Absent
    /\ log = <<>> /\ result = "none" /\ due = FALSE /\ started = 0
    /\ prev = [failed |-> FALSE, wrote |-> FALSE, immediate |-> FALSE, retry |-> FALSE]
    /\ fs0 = [exec |-> fs.exec, old |-> fs.old]
    /\ faults = FALSE /\ applied = EmptyInfo
    /\ PromoterInit /\ concurrency = 1
    /\ \A v \in Versions : table[v] = Record("dev", 0, FALSE, FALSE)
    /\ bucketSet

RepeatedRun ==
    \/ Start /\ result' # "ErrMkdir"
    \/ CanUpdate
    \/ SetNextUpdateTime
    \/ FetchInfo

RepeatedNext == RepeatedRun \/ Tick

SpecRepeated ==
    RepeatedInit /\ [][RepeatedNext]_vars /\ WF_vars(RepeatedRun) /\ WF_vars(Tick)

\* The cycle of the scheduler revision (UpdateIfNeeded): the Scheduler is a
\* DailyScheduler when HasScheduledHour and an IntervalScheduler otherwise, and
\* a nil Requester is replaced by an HTTPRequester where selfupdate.go returns
\* ErrNoRequester.
SchedulerConfigs ==
    [CurrentVersion : {"1.0"}, ForceCheck : BOOLEAN, Channel : {""},
     HasScheduledHour : BOOLEAN, ScheduledHour : {1}, CheckTime : {1},
     RandomizeTime : {0, 1}, HasRequester : BOOLEAN, HasCallback : {TRUE},
     CmdName : {"myapp"}, ApiURL : {TestApiURL}, BinURL : {BareURL}]

SchedulerInit ==
    /\ u \in SchedulerConfigs
    /\ Local = UTC
    /\ GOOS = "linux" /\ fetched = <<>>
    /\ cktime \in {MissingFile, ValidFile(0)}
    /\ now = 0
    /\ Info = EmptyInfo /\ pc = "idle"
    /\ fs = [exec |-> OldBin, new |-> Absent, old |-> Absent]
    /\ decoded = NoDecoded /\ payload = Absent /\ bin = Absent
    /\ log = <<>> /\ result = "none" /\ due = FALSE /\ started = 0
    /\ prev = [failed |-> FALSE, wrote |-> FALSE, immediate |-> FALSE, retry |-> FALSE]
    /\ fs0 = [exec |-> fs.exec, old |-> fs.old]
    /\ faults = FALSE /\ applied = EmptyInfo
    /\ PromoterInit /\ concurrency = 1
    /\ \A v \in Versions : table[v] = Record("dev", 0, FALSE, FALSE)
    /\ bucketSet

\* UpdateIfNeeded: u.Scheduler.SetNextUpdate()
SchedulerSetNextUpdate ==
    /\ pc = "setNext"
    /\ \E r \in RandValues, outcome \in WriteOutcomes :
         LET next == IF u.HasScheduledHour THEN calculateScheduledTime(u, now)
                     ELSE intervalNextUpdate(u.CheckTime, u.RandomizeTime, now, r)
         IN  /\ cktime' = writeTime(cktime, next, outcome)
             /\ log' = Append(log, IF outcome = "ok" THEN "writeTime" ELSE "writeTimeFailed")
    /\ pc' = "fetchInfo"
    /\ UNCHANGED <<u, Local, GOOS, fetched, Info, now, fs, bin, result, due, started, decoded, payload, prev, fs0, faults, applied>>
    /\ UNCHANGED pvars

\* the Requester after `if u.Requester == nil { u.Requester = &HTTPRequester{} }`,
\* and the note the log gets when the replacement happens
withDefaultRequester(cfg) == [cfg EXCEPT !.HasRequester = TRUE]

\* the base URL after `if !strings.HasSuffix(b, "/") { b = b + "/" }`
withSlash(base) == IF base \in SlashedURLs THEN base ELSE Slashed(base)
defaulted(cfg) == IF cfg.HasRequester THEN <<>> ELSE <<"HTTPRequester">>

\* Update of the scheduler revision: u.fetchInfo, then the version comparison
SchedulerFetchInfo ==
    /\ pc = "fetchInfo"
    /\ u' = [withDefaultRequester(u) EXCEPT !.ApiURL = withSlash(@)]
    /\ fetched' = Append(fetched, fetchInfoURL(u', GOOS))
    /\ \E resp \in ManifestResponses :
         LET err == fetchInfo(u, resp) IN
         /\ decoded' = IF resp.kind = "json" THEN resp.info ELSE NoDecoded
         /\ IF err # ""
            THEN /\ Info' = Info
                 /\ log' = log \o defaulted(u) \o <<"fetchInfo">>
                 /\ Return(err)
            ELSE /\ Info' = resp.info
                 /\ log' = log \o defaulted(u) \o <<"fetchInfo", "accept">>
                 /\ IF versionEqual(resp.info, u)
                    THEN Return("nil")
                    ELSE pc' = "fetchBin" /\ result' = result
    /\ UNCHANGED <<Local, GOOS, now, cktime, fs, payload, bin, due, started, prev, fs0, faults, applied>>
    /\ UNCHANGED pvars

\* Update of the scheduler revision: u.fetchAndVerifyFullBin
SchedulerFetchBin ==
    /\ pc = "fetchBin"
    /\ u' = [withDefaultRequester(u) EXCEPT !.BinURL = withSlash(@)]
    /\ fetched' = Append(fetched, fetchBinURL(u', Info, GOOS))
    /\ log' = log \o defaulted(u) \o <<"fetchBin">>
    /\ \E resp \in BinResponses :
         LET err == fetchAndVerifyFullBin(Info, resp) IN
         /\ payload' = resp.payload
         /\ IF err # "" THEN bin' = bin /\ Return(err)
            ELSE /\ bin' = resp.payload
                 /\ pc' = "rmNew" /\ result' = result
    /\ UNCHANGED <<Local, GOOS, Info, now, cktime, fs, decoded, due, started, prev, fs0, faults, applied>>
    /\ UNCHANGED pvars

SchedulerNext ==
    \/ Start \/ CanUpdate \/ SchedulerSetNextUpdate \/ SchedulerFetchInfo
    \/ SchedulerFetchBin
    \/ RemoveStaleNew \/ RemoveStaleOld \/ OpenNew \/ WriteNew
    \/ RenameExecToOld \/ RenameNewToExec \/ Rollback \/ RemoveOld \/ Callback
    \/ Tick

SpecScheduler == SchedulerInit /\ [][SchedulerNext]_vars

\* the requests of a forced cycle, over app names and channels that need
\* escaping or cleaning and for builds of both operating systems: the cycle up
\* to the fetch of the binary
AppNames == {"myapp", "myapp+foo", "my app", "a/b"}
AppChannels == {"", "stable", "beta", "a/b", ".."}
URLConfigs ==
    [CurrentVersion : {"1.0"}, ForceCheck : {TRUE}, Channel : AppChannels,
     HasScheduledHour : {FALSE}, ScheduledHour : {0}, CheckTime : {1},
     RandomizeTime : {0}, HasRequester : {TRUE}, HasCallback : {TRUE},
     CmdName : AppNames, ApiURL : {TestApiURL, BareURL}, BinURL : {TestBinURL}]

URLInit ==
    /\ u \in URLConfigs
    /\ GOOS \in {"linux", "windows"}
    /\ fetched = <<>>
    /\ Local = UTC
    /\ cktime = MissingFile
    /\ now = 0
    /\ Info = EmptyInfo /\ pc = "idle"
    /\ fs = [exec |-> OldBin, new |-> Absent, old |-> Absent]
    /\ decoded = NoDecoded /\ payload = Absent /\ bin = Absent
    /\ log = <<>> /\ result = "none" /\ due = FALSE /\ started = 0
    /\ prev = [failed |-> FALSE, wrote |-> FALSE, immediate |-> FALSE, retry |-> FALSE]
    /\ fs0 = [exec |-> fs.exec, old |-> fs.old]
    /\ faults = FALSE /\ applied = EmptyInfo
    /\ PromoterInit /\ concurrency = 1
    /\ \A v \in Versions : table[v] = Record("dev", 0, FALSE, FALSE)
    /\ bucketSet

URLNext == Start \/ CanUpdate \/ SetNextUpdateTime \/ FetchInfo \/ FetchBin

SpecURL == URLInit /\ [][URLNext]_vars

---------------------------------------------------------------------------
(* Claims about the update cycle *)

ApplyOps ==
    {"rmNew", "rmOld", "openNew", "writeNew", "renameOld", "renameNew", "rollback",
     "rmOldFinal"}
ApplyPcs == ApplyOps \cup {"callback"}
FetchOps == {"fetchInfo", "fetchBin"}
NoApplyOp == \A i \in 1..Len(log) : log[i] \notin ApplyOps
CleanDir == [exec |-> OldBin, new |-> Absent, old |-> Absent]

\* C1: during applyUpdate, at every instant between its steps, the file at the
\* canonical path is the complete old binary or the complete new binary, never
\* absent and never partial
C1_CanonicalIsOldOrNew == fs.exec \in {OldBin} \cup Payloads

\* C2: applyUpdate runs only with bytes whose SHA-256 equals the Sha256 of the
\* manifest accepted in the same cycle; decompressed bytes that do not match
\* end the cycle with ErrHashMismatch and no operation of applyUpdate is issued
C2_OnlyVerifiedBytesApplied ==
    /\ pc \in ApplyPcs =>
         /\ InLog("accept") /\ Info = decoded
         /\ bin \in Payloads /\ bin = payload
         /\ Sha256Sum(bin) = Info.Sha256
    /\ result = "ErrHashMismatch" =>
         /\ InLog("accept") /\ Info = decoded
         /\ payload \in Payloads /\ Sha256Sum(payload) # Info.Sha256
         /\ bin = Absent /\ NoApplyOp
    /\ (pc = "idle" /\ payload # Absent) =>
         \/ result = "ErrHashMismatch"
         \/ (Sha256Sum(payload) = Info.Sha256 /\ ~NoApplyOp)

C2_Witness == result = "ErrHashMismatch" /\ payload = "binB" /\ fs = CleanDir

\* the channel the cycle requests, an empty Channel counting as stable
C3_Requested == IF u.Channel = "" THEN "stable" ELSE u.Channel
C3_ChannelDiffers == decoded # NoDecoded /\ decoded.Channel # C3_Requested

\* C3 as stated: a manifest of another channel always ends the cycle with
\* ErrChannelMismatch, without a binary fetch or a file operation of applyUpdate
C3_AlwaysChannelMismatch ==
    C3_ChannelDiffers =>
        /\ pc = "idle" /\ result = "ErrChannelMismatch"
        /\ ~InLog("fetchBin") /\ NoApplyOp

\* C3 amended: a manifest of another channel ends the cycle with
\* ErrChannelMismatch when its hash is 32 bytes long and with ErrInvalidHash
\* otherwise; either way it is not accepted, no binary is fetched and no file
\* operation of applyUpdate is issued
C3_ChannelMismatchRejected ==
    C3_ChannelDiffers =>
        /\ pc = "idle"
        /\ result = (IF Len(decoded.Sha256) = 32 THEN "ErrChannelMismatch" ELSE "ErrInvalidHash")
        /\ ~InLog("accept") /\ ~InLog("fetchBin") /\ NoApplyOp /\ bin = Absent

C3_Witness ==
    /\ u.Channel = "beta" /\ decoded.Channel = "stable"
    /\ result = "ErrChannelMismatch" /\ InLog("fetchInfo")

\* C4: with CurrentVersion "dev" the due check answers false whatever the time
\* file holds and whatever ForceCheck is, and the cycle fetches nothing, writes
\* no schedule and leaves the executable's directory alone
C4_DevNeverUpdates ==
    u.CurrentVersion = "dev" =>
        /\ ~due /\ pc = "idle"
        /\ \A i \in 1..Len(log) : log[i] = "mkdir"
        /\ cktime \in InitFiles
        /\ fs = CleanDir
        /\ result \in {"none", "nil", "ErrMkdir"}

C4_Witness ==
    /\ u.CurrentVersion = "dev" /\ u.ForceCheck /\ cktime = MissingFile
    /\ result = "nil" /\ log = <<"mkdir">>

\* the time setNextUpdateTime is to persist for a cycle begun at `started`
C9_Expected ==
    IF u.HasScheduledHour
    THEN LET at == (started - (started % (24 * Hour))) + u.ScheduledHour * Hour
         IN  IF at < started THEN at + 24 * Hour ELSE at
    ELSE started + u.CheckTime * Hour

\* C9 as stated: once a due cycle is at its first fetch, and at every fetch or
\* file operation of applyUpdate after it, the next-due time is in the time file
C9_PersistedBeforeFetch ==
    (pc = "fetchInfo" \/ \E i \in 1..Len(log) : log[i] \in FetchOps \cup ApplyOps) =>
        /\ cktime.kind = "valid"
        /\ cktime.text = C9_Expected \div Second

\* C9 amended: setNextUpdateTime runs before the first fetch; when ScheduledHour
\* is set or CheckTime > 0 its write of the time file was issued before every
\* fetch and every file operation of applyUpdate, and the file holds the
\* next-due time whenever that write succeeded
C9_WriteIssuedBeforeFetch ==
    /\ \A i \in 1..Len(log) :
         (log[i] \in FetchOps \cup ApplyOps /\ (u.HasScheduledHour \/ u.CheckTime > 0)) =>
             \E j \in 1..(i - 1) : log[j] \in {"writeTime", "writeTimeFailed"}
    /\ (pc = "fetchInfo" /\ (u.HasScheduledHour \/ u.CheckTime > 0)) =>
             (InLog("writeTime") \/ InLog("writeTimeFailed"))
    /\ InLog("writeTime") =>
             cktime.kind = "valid" /\ cktime.text = C9_Expected \div Second

C9_Witness == InLog("writeTime") /\ InLog("fetchBin") /\ InLog("renameOld")

\* the cycle began exactly at the daily policy's scheduled instant
C10_AtScheduledInstant ==
    u.HasScheduledHour /\ started % (24 * Hour) = u.ScheduledHour * Hour

Count(e) == Cardinality({i \in 1..Len(log) : log[i] = e})

\* C11: when the accepted manifest's version equals CurrentVersion, Update
\* returns nil having issued one fetch, the manifest's: no binary fetch, no
\* operation of applyUpdate, no OnSuccessfulUpdate
C11_VersionEqualShortCircuits ==
    (InLog("accept") /\ Info.Version = u.CurrentVersion) =>
        /\ pc = "idle" /\ result = "nil"
        /\ Count("fetchInfo") = 1 /\ Count("fetchBin") = 0
        /\ NoApplyOp /\ ~InLog("callback")
        /\ payload = Absent /\ bin = Absent
        /\ fs.exec = fs0.exec /\ fs.old = fs0.old

C11_Witness ==
    /\ InLog("accept") /\ Info.Version = u.CurrentVersion /\ Info.Version = "1.0"
    /\ result = "nil" /\ log[Len(log)] = "accept"

\* C12: OnSuccessfulUpdate is invoked once in a cycle whose applyUpdate
\* returned nil (the new binary written and both renames done, .name.old
\* removed or not), and not at all in a cycle that was not due, returned an
\* error or ended on version equality
C12_CallbackOncePerSuccess ==
    /\ Count("callback") <= 1
    /\ InLog("callback") =>
         /\ pc = "idle" /\ result = "nil" /\ due
         /\ InLog("rmOldFinal") /\ ~InLog("rollback")
         /\ Count("writeNew") = 1 /\ Count("renameOld") = 1 /\ Count("renameNew") = 1
         /\ bin \in Payloads /\ fs.exec = bin
         /\ Info.Version # u.CurrentVersion
    /\ (pc = "idle" /\ InLog("rmOldFinal") /\ u.HasCallback) => InLog("callback")
    /\ (pc = "idle" /\ result # "nil") => ~InLog("callback")
    /\ ~due => ~InLog("callback")

C12_Witness ==
    /\ InLog("callback") /\ result = "nil" /\ fs.exec = "binA"
    /\ fs.old = OldBin /\ faults

\* C13: once a cycle of this Updater has applied the update a manifest
\* describes, a later cycle that is served the identical manifest stops at the
\* version comparison: no binary fetch, no operation of applyUpdate, no
\* OnSuccessfulUpdate
C13_SameManifestIsNoOp ==
    (applied # EmptyInfo /\ decoded = applied) =>
        /\ pc = "idle" /\ result = "nil"
        /\ ~InLog("fetchBin") /\ NoApplyOp /\ ~InLog("callback")

\* C14 as stated: when applyUpdate returns because a rename failed, a complete
\* binary is at the canonical path
C14_RenameFailureKeepsBinary ==
    (pc = "idle" /\ result \in {"ErrRenameOld", "ErrRenameNew", "ErrRecover"}
         /\ fs0.exec # Absent) =>
        fs.exec \in {OldBin} \cup Payloads

\* C14 amended: when applyUpdate returns because a rename failed, the old
\* binary is at the canonical path, except when the final rename and the
\* rollback rename both failed: then the canonical path holds no file and the
\* old binary is at .name.old
C14_RenameFailureUnlessRollbackFails ==
    (pc = "idle" /\ fs0.exec # Absent) =>
        /\ result \in {"ErrRenameOld", "ErrRenameNew"} =>
             (fs.exec = fs0.exec /\ fs.exec \in {OldBin} \cup Payloads)
        /\ result = "ErrRecover" => (fs.exec = Absent /\ fs.old = fs0.exec)

C14_Witness ==
    /\ pc = "idle" /\ result = "ErrRenameNew" /\ InLog("rollback")
    /\ fs.exec = OldBin /\ fs.new = "binA" /\ fs.old = Absent

\* C15: applyUpdate returns the recovery-failure error, and not the error of
\* the final rename, exactly when the final rename and the rollback rename both
\* failed, and of the calls that began with a binary at the canonical path and
\* ran to their return these are the only ones that leave no file there
C15_RecoveryFailureIsDistinct ==
    (pc = "idle" /\ fs0.exec # Absent) =>
        /\ result = "ErrRecover" =>
             /\ Len(log) >= 2
             /\ log[Len(log)] = "rollback" /\ log[Len(log) - 1] = "renameNew"
             /\ faults
        /\ InLog("rollback") =>
             /\ result \in {"ErrRenameNew", "ErrRecover"}
             /\ result = "ErrRecover" <=> fs.exec = Absent
        /\ result = "ErrRenameNew" => InLog("rollback")
        /\ fs.exec = Absent => result = "ErrRecover"

C15_Witness ==
    /\ pc = "idle" /\ result = "ErrRecover"
    /\ fs.exec = Absent /\ fs.old = OldBin /\ fs.new = "binA"

\* C16: when the write of .name.new fails, the rename to .name.old fails, or
\* the final rename fails and the rollback succeeds, applyUpdate returns that
\* error with the old binary at the canonical path, and the applyUpdate of the
\* next cycle, when none of its file operations fails, returns nil with the new
\* binary at the canonical path
C16_FailedApplyCanBeRetried ==
    /\ (pc = "idle" /\ result \in Retryable /\ fs0.exec # Absent) =>
         /\ fs.exec = fs0.exec
         /\ result = "ErrWriteNew" => log[Len(log)] \in {"openNew", "writeNew"}
         /\ result = "ErrRenameOld" => log[Len(log)] = "renameOld"
         /\ result = "ErrRenameNew" => log[Len(log)] = "rollback"
    /\ (prev.retry /\ fs0.exec # Absent /\ ~faults /\ pc = "idle" /\ InLog("rmNew")) =>
         /\ result = "nil"
         /\ bin \in Payloads /\ fs.exec = bin

C16_Witness ==
    /\ prev.retry /\ fs0.exec = OldBin /\ ~faults /\ pc = "idle" /\ InLog("rmNew")
    /\ result = "nil" /\ fs.exec = "binA"

\* C17: when canUpdate fails, the cycle returns its error with nothing fetched,
\* no write of the time file issued, no operation of applyUpdate issued, and the
\* canonical path and .name.old as they were
C17_ProbeFailureAbortsCycle ==
    result = "ErrCanUpdate" =>
        /\ pc = "idle"
        /\ log = <<"mkdir", "probe">>
        /\ fs.exec = fs0.exec /\ fs.old = fs0.old
        /\ decoded = NoDecoded /\ payload = Absent /\ bin = Absent

C17_Witness ==
    /\ result = "ErrCanUpdate" /\ fs.new = Partial /\ fs.exec = OldBin
    /\ u.HasScheduledHour /\ cktime = MissingFile

\* C18: for a non-dev, non-forced check, a time file that does not exist makes
\* the check due, and one that cannot be read or parsed makes it not due
C18_MissingDueCorruptNotDue ==
    (u.CurrentVersion # "dev" /\ ~u.ForceCheck /\ log = <<"mkdir">> /\ result # "ErrMkdir") =>
        /\ cktime.kind = "missing" => (due /\ pc = "canUpdate")
        /\ cktime.kind \in {"corrupt", "unreadable"} =>
             (~due /\ pc = "idle" /\ result = "nil")

C18_Witness ==
    /\ u.CurrentVersion # "dev" /\ ~u.ForceCheck /\ log = <<"mkdir">>
    /\ cktime = CorruptFile /\ ~due /\ result = "nil"

\* C19: for a non-dev CurrentVersion, ForceCheck makes the check due whatever
\* the time file holds
C19_ForceCheckIsDue ==
    (u.CurrentVersion # "dev" /\ u.ForceCheck /\ log # <<>> /\ result # "ErrMkdir") =>
        /\ due
        /\ log = <<"mkdir">> => pc = "canUpdate"

C19_Witness ==
    /\ u.CurrentVersion # "dev" /\ u.ForceCheck /\ pc = "canUpdate"
    /\ cktime = ValidFile(Hour) /\ now < Hour

\* the instant the daily policy persisted in the cycle that began at `started`
Persisted == ParseRFC3339(cktime.text)
Written ==
    /\ u.HasScheduledHour /\ u.ScheduledHour \in DailyHours
    /\ Len(log) > 0 /\ log[Len(log)] = "writeTime"
Today == wallClock(Local, started) - (wallClock(Local, started) % Day)
HourPassed == wallClock(Local, started) > Today + u.ScheduledHour * Hour

\* C20: for every requested hour h in 0..23 and every current time, the
\* next-due time the daily policy persists has hour h, is on today's date when
\* today's h:00 has not passed and on tomorrow's date when it has, and is later
\* than now and less than 24 hours away
C20_DailyNextDue ==
    Written =>
        LET w == wallClock(Local, Persisted) IN
        /\ w % Day = u.ScheduledHour * Hour
        /\ w - (w % Day) = IF HourPassed THEN Today + Day ELSE Today
        /\ Persisted > started
        /\ Persisted - started < 24 * Hour

\* the interval policy persisted a time in the cycle, or the call of
\* SetNextUpdate, that began at `started`
IntervalWritten ==
    /\ ~u.HasScheduledHour /\ u.CheckTime >= 1
    /\ Len(log) > 0 /\ log[Len(log)] = "writeTime"

UpdateReturned ==
    /\ pc = "idle" /\ due /\ InLog("probe")
    /\ result \notin {"ErrCanUpdate", "killed"}

\* C23: when no Requester is configured, the cycle that gets to Update returns
\* ErrNoRequester, and no request for the manifest or the binary is made
C23_NoRequesterFails ==
    ((~u.HasRequester \/ InLog("HTTPRequester")) /\ UpdateReturned) =>
        /\ result = "ErrNoRequester"
        /\ ~InLog("fetchInfo") /\ ~InLog("fetchBin")

\* the process crashed in the Update of the current (or last) cycle
Crashed == pc = "idle" /\ result = "panic"

\* C24: a nil stream with a nil error from the Requester, for the manifest or
\* for the binary, ends the cycle with an error and not with a crash
C24_NilStreamIsAnError == ~Crashed

\* C29: when the Requester serves the JSON object {} as the manifest, the cycle
\* of a non-dev Updater returns no error and applies no update, also when the
\* check is due
C29_EmptyManifestNoError ==
    (u.CurrentVersion # "dev" /\ decoded = EmptyInfo /\ pc = "idle") =>
        /\ result = "nil"
        /\ ~InLog("fetchBin") /\ NoApplyOp /\ fs.exec = fs0.exec

\* the URL that is the base, then the given segments each followed by a slash,
\* then the platform and the extension
Layout(base, segments, ext) ==
    [base |-> base, sep |-> "/", path |-> segments \o <<platform(GOOS)>>, ext |-> ext]
ChannelSegment ==
    IF requestedChannel(u) # stableChannel THEN <<PathEscape(u.Channel)>> ELSE <<>>

\* C30: the manifest URL a cycle requests is the base URL, the escaped app name,
\* the escaped channel only when the channel is not stable (an empty channel is
\* stable), then OS-ARCH.json; the binary URL is the binary base URL with the
\* same segments, then the escaped manifest version and OS-ARCH.gz
C30_RequestedURLs ==
    /\ Len(fetched) >= 1 =>
          fetched[1] = Layout(u.ApiURL, <<PathEscape(u.CmdName)>> \o ChannelSegment, ".json")
    /\ Len(fetched) >= 2 =>
          fetched[2] = Layout(u.BinURL, <<PathEscape(u.CmdName)>> \o ChannelSegment
                                          \o <<PathEscape(Info.Version)>>, ".gz")

\* C32: a cycle whose check is not forced and not due (a dev version, or a
\* persisted time after the clock, or a time file that cannot be read or parsed)
\* returns nil right after the due check: no probe, no fetch, no write of the
\* time file, no file operation on the executable; the time file and the files
\* of the executable are as they were
C32_NotDueChangesNothing ==
    [][(/\ Start
        /\ ~u.ForceCheck
        /\ (u.CurrentVersion = "dev" \/ readTime(cktime, now) > now)
        /\ result' # "ErrMkdir")
       => (/\ pc' = "idle" /\ result' = "nil" /\ ~due'
           /\ log' = <<"mkdir">> /\ fetched' = <<>>
           /\ cktime' = cktime /\ fs' = fs /\ Info' = Info)]_vars

C32_Witness ==
    /\ u.CurrentVersion # "dev" /\ ~u.ForceCheck
    /\ pc = "idle" /\ log = <<"mkdir">> /\ ~due /\ result = "nil"
    /\ cktime = ValidFile(Hour) /\ now < Hour /\ fs.exec = OldBin

\* a completely written binary
Complete == {OldBin} \cup Payloads

\* C33: an applyUpdate attempt in which no file operation is made to fail and
\* that is not interrupted ends with a complete binary, old or new, at the
\* canonical path, whatever files an earlier interrupted attempt left; and the
\* removal of the stale files at its start leaves a complete copy of the
\* executable in the directory
C33_InterruptedAttemptRecovers ==
    /\ (pc = "idle" /\ result # "killed" /\ InLog("rmOld") /\ ~faults) =>
            fs.exec \in Complete
    /\ (pc = "openNew" /\ InLog("rmOld") /\ ~faults) =>
            (fs.exec \in Complete \/ fs.old \in Complete \/ fs.new \in Complete)

---------------------------------------------------------------------------
(* Claims about the promoter *)

Steps == {<<"dev", "beta">>, <<"beta", "stable">>}

\* C5: when promoter invocations overlap, every record update that takes effect
\* found the approval flag as its own scan read it, so no transition of a
\* version is recorded a second time
C5_AtMostOnePromotionRecorded ==
    \A v \in Versions : \A i \in DOMAIN recorded[v] :
        /\ ~recorded[v][i].stale
        /\ \A j \in DOMAIN recorded[v] :
             (recorded[v][j].from = recorded[v][i].from /\ recorded[v][j].to = recorded[v][i].to)
                 => i = j

\* C6: with one invocation at a time, store errors or not, the recorded channel
\* of a version only moves dev -> beta -> stable: every recorded update is one
\* of these two steps from the channel the record had, none is recorded twice,
\* a step to beta never follows a step to stable, one invocation makes at most
\* one step, and a stable record was in beta when it was promoted
C6_ChannelOnlyMovesForward ==
    \A v \in Versions :
        LET r == recorded[v] IN
        /\ \A i \in DOMAIN r : r[i].before = r[i].from /\ <<r[i].from, r[i].to>> \in Steps
        /\ \A i, j \in DOMAIN r : i < j => (r[i].to = "beta" /\ r[j].to = "stable")
        /\ r # <<>> => table[v].channel = r[Len(r)].to
        /\ table[v].channel = "stable" =>
               \E i \in DOMAIN r : r[i].to = "stable" /\ r[i].before = "beta"
        /\ \A k \in 1..MaxScans : scans[k].done =>
               \/ scans[k].post[v].channel = scans[k].pre[v].channel
               \/ <<scans[k].pre[v].channel, scans[k].post[v].channel>> \in Steps

C6_Witness ==
    /\ Len(recorded["v1"]) = 2 /\ table["v1"].channel = "stable"
    /\ \E k \in 1..MaxScans : scans[k].done /\ ~scans[k].clean

\* invocations k and k+1 both returned without a failed call, and when
\* invocation k scanned, version v was a dev record at least 24h old that was
\* not dev-approved
C7_TwoCleanScans(k, v) ==
    /\ scans[k].done /\ scans[k].clean
    /\ scans[k + 1].done /\ scans[k + 1].clean
    /\ scans[k].pre[v].ok /\ scans[k].pre[v].channel = "dev"
    /\ scans[k].at - scans[k].pre[v].date >= 24 * Hour
    /\ ~scans[k].pre[v].dev_approved

\* invocation k left version v in beta, dev-approved, with one recorded update
C7_FirstPromotes(k, v) ==
    /\ scans[k].post[v].channel = "beta" /\ scans[k].post[v].dev_approved
    /\ ~scans[k].post[v].beta_approved
    /\ Cardinality({i \in DOMAIN recorded[v] : recorded[v][i].scan = k}) = 1
    /\ scans[k + 1].pre[v] = scans[k].post[v]

\* invocation k+1 changed neither the record nor the objects of version v
C7_SecondIdle(k, v) ==
    /\ scans[k + 1].post[v] = scans[k + 1].pre[v]
    /\ scans[k + 1].same[v]
    /\ Cardinality({i \in DOMAIN recorded[v] : recorded[v][i].scan \in {k, k + 1}}) = 1

\* C7 as stated: of two consecutive invocations without store errors on a dev
\* record that is at least 24h old and not dev-approved, the first leaves it in
\* beta with devApproved set and the second changes neither the record nor the
\* object store
C7_SecondScanChangesNothing ==
    \A k \in 1..(MaxScans - 1) : \A v \in Versions :
        C7_TwoCleanScans(k, v) => (C7_FirstPromotes(k, v) /\ C7_SecondIdle(k, v))

\* C7 amended: the first invocation leaves the record in beta with devApproved
\* set, with one recorded update; the second changes neither the record nor the
\* object store when it runs less than 72h after that promotion, and promotes
\* the record to stable when it runs 72h or more after it
C7_SecondScanWithin72h ==
    \A k \in 1..(MaxScans - 1) : \A v \in Versions :
        C7_TwoCleanScans(k, v) =>
            /\ C7_FirstPromotes(k, v)
            /\ IF scans[k + 1].at - scans[k].post[v].date < 72 * Hour
               THEN C7_SecondIdle(k, v)
               ELSE /\ scans[k + 1].post[v].channel = "stable"
                    /\ scans[k + 1].post[v].beta_approved
                    /\ ~scans[k + 1].same[v]

C7_Witness ==
    /\ C7_TwoCleanScans(1, "v1")
    /\ scans[2].at - scans[1].post["v1"].date < 72 * Hour
    /\ scans[2].post["v1"].channel = "beta" /\ scans[2].same["v1"]

\* C8: an invocation starts the promotion dev -> beta of a record exactly when
\* the record it read is in dev, at least 24h old and not dev-approved, and the
\* promotion beta -> stable exactly when it is in beta, at least 72h old,
\* dev-approved and not beta-approved; a promotion it starts and whose calls
\* all succeed is recorded, and in every other case the record and the objects
\* of the version are as the invocation found them
C8_GatesDecide ==
    \A s \in Scanners : \A v \in Versions :
        (sc[s].pc # "idle" /\ v \notin sc[s].todo) =>
            LET r == sc[s].snap[v]
                age == sc[s].at - r.date
                a == sc[s].attempt[v]
                over == sc[s].pc = "loop" \/ sc[s].version # v
            IN  /\ a = "beta" <=>
                     (r.ok /\ r.channel = "dev" /\ age >= 24 * Hour /\ ~r.dev_approved)
                /\ a = "stable" <=>
                     (r.ok /\ r.channel = "beta" /\ age >= 72 * Hour /\ r.dev_approved
                          /\ ~r.beta_approved)
                /\ a \in {"", "beta", "stable"}
                /\ a = "" => (table[v] = r /\ SameObjects(s, v))
                /\ (a # "" /\ sc[s].clean /\ over) =>
                     /\ table[v].channel = a
                     /\ IF a = "beta" THEN table[v].dev_approved ELSE table[v].beta_approved
                     /\ manifests[a][v].present /\ manifests[a][v].Channel = a
                     /\ binaries[a][v] = PayloadOf(v)

C8_Witness ==
    \E s \in Scanners :
        /\ sc[s].pc = "loop" /\ sc[s].todo = {} /\ sc[s].clean
        /\ sc[s].attempt["v1"] = "stable" /\ table["v1"].channel = "stable"
        /\ sc[s].attempt["v2"] = "" /\ sc[s].snap["v2"].channel = "dev"

\* the invocations that have iterated every item and are about to return
Finishing == {s \in Scanners : sc[s].pc = "loop" /\ sc[s].todo = {}}

\* C25: in a scan, a record that does not decode and a promoteUpdate that
\* returns an error do not stop the loop: promoteUpdate is called for every
\* record whose gate is open, every such record whose own promoteUpdate returns
\* no error is recorded as promoted by this scan with its objects in the
\* destination channel, and the only error checkAndPromote returns is that of
\* the Scan call
C25_ScanSurvivesRecordErrors ==
    /\ \A s \in Finishing : \A v \in Versions :
         LET p == promotionFor(sc[s].snap[v], sc[s].at) IN
         p # <<>> =>
           /\ sc[s].attempt[v] = p[2]
           /\ v \notin sc[s].failed =>
                /\ \E i \in 1..Len(recorded[v]) :
                     recorded[v][i].scan = sc[s].id /\ recorded[v][i].to = p[2]
                /\ manifests[p[2]][v].present /\ binaries[p[2]][v] # Absent
    /\ \A s \in Scanners : sc[s].ret \in {"none", "running", "nil", "ErrScan"}
    /\ \A s \in Scanners : sc[s].pc # "idle" => sc[s].ret = "running"

C25_Witness ==
    \E s \in Finishing :
        /\ sc[s].failed = {"v1"} /\ sc[s].attempt["v2"] = "beta"
        /\ table["v2"].channel = "beta" /\ table["v1"].channel = "dev"
        /\ Len(recorded["v2"]) = 1

\* the record of version v before the first scan
Created(v) ==
    IF scanNo = 0 THEN table[v]
    ELSE IF scans[1].done THEN scans[1].pre[v]
    ELSE (CHOOSE x \in {sc[s].snap : s \in {s2 \in Scanners : sc[s2].id = 1}} : TRUE)[v]

\* C26: for a record created in dev with both flags false, in every state the
\* scans reach: in dev both flags are false, in beta dev_approved is set and
\* beta_approved is not, in stable both are set; every recorded transition is
\* dev to beta or beta to stable; and no scan records two transitions of one
\* record
C26_FlagsFollowChannel ==
    \A v \in Versions :
        Created(v) = Record("dev", 0, FALSE, FALSE) =>
            LET r == table[v] IN
            /\ r.ok /\ r.channel \in Channels
            /\ r.channel = "dev" => (~r.dev_approved /\ ~r.beta_approved)
            /\ r.channel = "beta" => (r.dev_approved /\ ~r.beta_approved)
            /\ r.channel = "stable" => (r.dev_approved /\ r.beta_approved)
            /\ \A i \in 1..Len(recorded[v]) :
                 <<recorded[v][i].from, recorded[v][i].to>>
                     \in {<<"dev", "beta">>, <<"beta", "stable">>}
            /\ \A i, j \in 1..Len(recorded[v]) :
                 recorded[v][i].scan = recorded[v][j].scan => i = j

C26_Witness ==
    /\ Created("v2") = Record("dev", 0, FALSE, FALSE)
    /\ table["v2"].channel = "stable" /\ table["v2"].dev_approved
    /\ table["v2"].beta_approved /\ Len(recorded["v2"]) = 2

\* the channel a promotion to channel `to` reads from
FromOf(to) == IF to = "beta" THEN "dev" ELSE "beta"
Running == {s \in Scanners : sc[s].pc # "idle"}

\* C27: while a scan runs, and when it is about to return, for every version
\* with `to` the channel the scan promotes it to (none for a version it does
\* not promote): the manifests and binaries of every channel but `to` are what
\* they were when the scan began; the record of a version it does not promote
\* is unchanged; a manifest the scan wrote under `to` is the manifest of the
\* `from` channel with the same Version and Sha256, Channel = to and Date =
\* now; a binary it wrote under `to` is the binary of the `from` channel; and a
\* version the scan recorded as promoted has both under `to`
C27_PromotionCopiesAndKeepsTheRest ==
    \A s \in Running : \A v \in Versions :
        LET to == sc[s].attempt[v]
            from == FromOf(to)
        IN
        /\ \A ch \in Channels \ {to} :
             manifests[ch][v] = sc[s].m0[ch][v] /\ binaries[ch][v] = sc[s].b0[ch][v]
        /\ to = "" => table[v] = sc[s].snap[v]
        /\ to # "" =>
             /\ manifests[to][v] # sc[s].m0[to][v] =>
                  /\ manifests[to][v].Version = sc[s].m0[from][v].Version
                  /\ manifests[to][v].Sha256 = sc[s].m0[from][v].Sha256
                  /\ manifests[to][v] =
                        [sc[s].m0[from][v] EXCEPT !.Channel = to, !.Date = sc[s].at]
             /\ binaries[to][v] # sc[s].b0[to][v] => binaries[to][v] = sc[s].b0[from][v]
             /\ (\E i \in 1..Len(recorded[v]) : recorded[v][i].scan = sc[s].id) =>
                  /\ manifests[to][v].present /\ manifests[to][v].Channel = to
                  /\ manifests[to][v].Version = manifests[from][v].Version
                  /\ manifests[to][v].Sha256 = manifests[from][v].Sha256
                  /\ binaries[to][v] = binaries[from][v] /\ binaries[to][v] # Absent

C27_Witness ==
    \E s \in Finishing :
        /\ sc[s].attempt = [v \in Versions |-> IF v = "v1" THEN "beta" ELSE ""]
        /\ sc[s].failed = {} /\ Len(recorded["v1"]) = 1
        /\ manifests["beta"]["v1"] = Manifest("v1", Sha256Sum("binA"), "beta", sc[s].at)
        /\ manifests["dev"]["v1"] = Manifest("v1", Sha256Sum("binA"), "dev", 0)
        /\ binaries["beta"]["v1"] = "binA" /\ binaries["dev"]["v1"] = "binA"
        /\ manifests["dev"]["v2"].present

\* C28: a manifest stored for a (channel, version) pair is never changed: one
\* that was there when a scan began is the same whenever that scan looks, also
\* when the scan repeats a promotion an earlier scan executed
C28_ManifestNeverRewritten ==
    \A s \in Running : \A ch \in Channels, v \in Versions :
        sc[s].m0[ch][v].present => manifests[ch][v] = sc[s].m0[ch][v]

\* the clock value at which invocation k scanned
ScanAt(k) ==
    IF scans[k].done THEN scans[k].at
    ELSE sc[CHOOSE s \in Scanners : sc[s].id = k].at

C34_RecordedMeansPublished ==
    \A v \in Versions :
        recorded[v] # <<>> =>
            LET ch == table[v].channel IN
            /\ ch = recorded[v][Len(recorded[v])].to
            /\ manifests[ch][v].present
            /\ manifests[ch][v].Version = v /\ manifests[ch][v].Channel = ch
            /\ manifests[ch][v].Sha256 = Sha256Sum(PayloadOf(v))
            /\ binaries[ch][v] = PayloadOf(v)

C34_Witness ==
    /\ table["v2"].channel = "beta" /\ binaries["beta"]["v2"] = PayloadOf("v2")
    /\ table["v1"].channel = "dev" /\ recorded["v1"] = <<>>
    /\ manifests["beta"]["v1"].present /\ binaries["beta"]["v1"] = Absent

\* C35: in every state, during a promotion and after a failed one included, a
\* channel that holds the manifest of a version holds the compressed binary of
\* that version
C35_ManifestImpliesBinary ==
    \A ch \in Channels : \A v \in Versions :
        manifests[ch][v].present => binaries[ch][v] = PayloadOf(v)

\* the record of version v is in stable with both approval flags set
Promoted(v) ==
    table[v].channel = "stable" /\ table[v].dev_approved /\ table[v].beta_approved

Key(url) == [path |-> url.path, ext |-> url.ext]

\* C37: for every promotion the promoter recorded, of a version to a channel,
\* the manifest key and the binary key it wrote are the keys that an Updater of
\* the app "myapp" configured for that channel requests for the manifest and
\* for the binary of that version
C37_PromotedKeysAreRequested ==
    \A v \in Versions : \A i \in DOMAIN recorded[v] :
        LET ch == recorded[v][i].to
            cfg == [u EXCEPT !.Channel = ch]
        IN  /\ Key(fetchInfoURL(cfg, GOOS)) = destKey(ch, v)
            /\ Key(fetchBinURL(cfg, [Version |-> v], GOOS)) = destBinKey(ch, v)

\* C38: a non-dev Updater with a policy, invoked again and again without
\* ForceCheck while the clock advances, has a due check at some point, whatever
\* the time file holds to begin with
C38_EventuallyDue == <>due

====
